---- MODULE Spec2Model ----
(***************************************************************************)
(* Notebook CRUD handlers and the notebook_run context-injection /         *)
(* session-linking workflow of backend/api/notebooks.py, over the two      *)
(* tables of backend/db/tables.                                            *)
(*                                                                         *)
(* Text is a sequence of one-character strings.  An Optional[str] is a     *)
(* sequence of length at most one: None is << >>, Some(s) is << s >>.      *)
(* Every database statement is one atomic step (READ COMMITTED, one        *)
(* session per request); requests interleave between their statements.     *)
(* update_notebook and delete_notebook are plain functions run on worker   *)
(* threads; notebook_run is a coroutine whose database calls block, so two *)
(* runs interleave when the application is served by more than one         *)
(* process over the same database, which nothing in the code excludes.     *)
(* The constraints of the two tables (primary keys from sequences, NOT     *)
(* NULL title, unique session_id, foreign key with ON DELETE CASCADE) are  *)
(* enforced by the database at the statement that violates them.           *)
(***************************************************************************)
EXTENDS Integers, Sequences, FiniteSets, TLC

\* ------------------------------------------------------------------ bounds
MaxNotebooks == 2
MaxRuns == 2
MaxUpdates == 2

\* ------------------------------------------------------------ text helpers
None == << >>
Some(x) == << x >>
IsNone(o) == Len(o) = 0
Val(o) == o[1]

NL == << "\n" >>
NotebookOpen == << "[", "N", "o", "t", "e", "b", "o", "o", "k", ":", " " >>
DescriptionOpen ==
  << "[", "D", "e", "s", "c", "r", "i", "p", "t", "i", "o", "n", ":", " " >>
InstructionsOpen ==
  << "[", "I", "n", "s", "t", "r", "u", "c", "t", "i", "o", "n", "s", ":", " " >>
Close == << "]" >>
UntitledNotebook ==
  << "U", "n", "t", "i", "t", "l", "e", "d", " ", "n", "o", "t", "e", "b", "o", "o", "k" >>

\* Python truthiness of an Optional[str]: None and "" are both falsy.
Truthy(o) == ~IsNone(o) /\ Len(Val(o)) > 0

\* sep.join(parts)
RECURSIVE Join(_, _)
Join(parts, sep) ==
  IF Len(parts) = 0 THEN << >>
  ELSE IF Len(parts) = 1 THEN parts[1]
  ELSE parts[1] \o sep \o Join(Tail(parts), sep)

\* ---------------------------------------------------------------- state
VARIABLES
  notebooks,      \* table notebooks: set of rows
  notebook_seq,   \* last value of the notebooks.id sequence
  links,          \* table notebook_sessions: set of rows (created_at left out)
  link_seq,       \* last value of the notebook_sessions.id sequence
  clock,          \* database now(), advanced by every notebook write
  agent_os,       \* module global _agent_os: None or Some(instance)
  uuid_count,     \* number of uuid4() calls made so far
  runs,           \* in-flight and finished notebook_run requests
  upds,           \* in-flight and finished update_notebook requests
  resp            \* response of the most recent single-step handler

vars == << notebooks, notebook_seq, links, link_seq, clock, agent_os,
           uuid_count, runs, upds, resp >>

Runs == 1 .. MaxRuns
Updates == 1 .. MaxUpdates
NotebookIds == 1 .. MaxNotebooks

\* db.query(NotebooksTable).filter(NotebooksTable.id == notebook_id).first()
NotebookById(n) == { nb \in notebooks : nb.id = n }
NotebookExists(n) == NotebookById(n) # {}
TheNotebook(n) == CHOOSE nb \in notebooks : nb.id = n

\* db.query(NotebookSessionsTable).filter(session_id == s).first()
LinkBySession(s) == { l \in links : l.session_id = s }

NoResp == [op |-> "none", notebook_id |-> 0, status |-> 0, body |-> None]

IdleRun ==
  [pc |-> "idle", notebook_id |-> 0, session_in |-> None, message |-> << >>,
   notebook |-> None, full_message |-> << >>, session_id |-> "",
   is_new_session |-> FALSE, existing_link |-> None, link |-> None,
   dispatched |-> None]

IdleUpd == [pc |-> "idle", notebook_id |-> 0, data |-> None, notebook |-> None]

Init ==
  /\ notebooks = {}
  /\ notebook_seq = 0
  /\ links = {}
  /\ link_seq = 0
  /\ clock = 0
  /\ agent_os = None
  /\ uuid_count = 0
  /\ runs = [r \in Runs |-> IdleRun]
  /\ upds = [u \in Updates |-> IdleUpd]
  /\ resp = NoResp

\* ------------------------------------------------------- request bodies
\* The fields of a JSON body are the domain of a record; a field that is
\* absent from the body is absent from the domain.
NotebookFields == {"title", "description", "instructions"}

\* NotebookCreate: pydantic fills the defaults of the fields not supplied.
NotebookCreate(body) ==
  [title |-> IF "title" \in DOMAIN body THEN body.title ELSE UntitledNotebook,
   description |-> IF "description" \in DOMAIN body THEN body.description ELSE None,
   instructions |-> IF "instructions" \in DOMAIN body THEN body.instructions ELSE None]

\* NotebookUpdate: every field is Optional and defaults to None; the model
\* remembers which fields the body supplied (model_fields_set).
NotebookUpdate(body) ==
  [fields |-> [f \in NotebookFields |-> IF f \in DOMAIN body THEN body[f] ELSE None],
   fields_set |-> DOMAIN body]

\* Faulty variant: model_dump() without exclude_unset, every field with its default.
ModelDump_All(data) == data.fields

\* data.model_dump(exclude_unset=True): the supplied fields only.
ModelDumpExcludeUnset(data) == [f \in data.fields_set |-> data.fields[f]]

\* The value a row holds for a field, in the shape the update body uses
\* (title is Optional[str] in NotebookUpdate, str in the table).
RowField(row, f) ==
  IF f = "title" THEN Some(row.title)
  ELSE IF f = "description" THEN row.description
  ELSE row.instructions

\* ---------------------------------------------------------- CRUD handlers
\* POST /notebooks
create_notebook(body) ==
  /\ notebook_seq < MaxNotebooks
  /\ LET data == NotebookCreate(body)
         row == [id |-> notebook_seq + 1,
                 title |-> data.title,
                 description |-> data.description,
                 instructions |-> data.instructions,
                 created_at |-> clock + 1,
                 updated_at |-> None]
     IN  /\ notebooks' = notebooks \cup {row}
         /\ notebook_seq' = notebook_seq + 1
         /\ clock' = clock + 1
         /\ resp' = [op |-> "create", notebook_id |-> row.id, status |-> 201,
                     body |-> Some(row)]
  /\ UNCHANGED << links, link_seq, agent_os, uuid_count, runs, upds >>

\* GET /notebooks/{notebook_id}
get_notebook(n) ==
  /\ resp' = IF NotebookExists(n)
             THEN [op |-> "get", notebook_id |-> n, status |-> 200,
                   body |-> Some(TheNotebook(n))]
             ELSE [op |-> "get", notebook_id |-> n, status |-> 404, body |-> None]
  /\ UNCHANGED << notebooks, notebook_seq, links, link_seq, clock, agent_os,
                  uuid_count, runs, upds >>

\* Faulty variant: the foreign key without ondelete="CASCADE" enforcement.
CascadeDelete_None(n) == links

\* ON DELETE CASCADE of notebook_sessions.notebook_id
CascadeDelete(n) == { l \in links : l.notebook_id # n }

\* DELETE /notebooks/{notebook_id}.  The row read by the handler's query only
\* decides between 404 and the DELETE statement, so both are one step.
delete_notebook(n) ==
  /\ IF NotebookExists(n)
     THEN /\ notebooks' = notebooks \ NotebookById(n)
          /\ links' = CascadeDelete(n)
          /\ resp' = [op |-> "delete", notebook_id |-> n, status |-> 204,
                      body |-> None]
     ELSE /\ UNCHANGED << notebooks, links >>
          /\ resp' = [op |-> "delete", notebook_id |-> n, status |-> 404,
                      body |-> None]
  /\ UNCHANGED << notebook_seq, link_seq, clock, agent_os, uuid_count, runs, upds >>

\* GET /notebooks/{notebook_id}/sessions (the order of the rows is not modelled)
list_notebook_sessions(n) ==
  /\ resp' = IF NotebookExists(n)
             THEN [op |-> "sessions", notebook_id |-> n, status |-> 200,
                   body |-> Some({ l \in links : l.notebook_id = n })]
             ELSE [op |-> "sessions", notebook_id |-> n, status |-> 404,
                   body |-> None]
  /\ UNCHANGED << notebooks, notebook_seq, links, link_seq, clock, agent_os,
                  uuid_count, runs, upds >>

\* PUT /notebooks/{notebook_id}, the query: lines 119-121
update_notebook_load(u, n, body) ==
  /\ upds[u].pc = "idle"
  /\ upds' = [upds EXCEPT ![u] =
       IF NotebookExists(n)
       THEN [pc |-> "commit", notebook_id |-> n, data |-> Some(NotebookUpdate(body)),
             notebook |-> Some(TheNotebook(n))]
       ELSE [pc |-> "http_404", notebook_id |-> n, data |-> Some(NotebookUpdate(body)),
             notebook |-> None]]
  /\ UNCHANGED << notebooks, notebook_seq, links, link_seq, clock, agent_os,
                  uuid_count, runs, resp >>

\* The attributes the unit of work sees as modified: setattr with the value
\* the object was loaded with leaves no net change.
UpdateChanged(loaded, update_data) ==
  { f \in DOMAIN update_data : update_data[f] # RowField(loaded, f) }

\* The row after UPDATE notebooks SET <changed columns>, updated_at = now()
UpdatedRow(row, update_data, changed, now) ==
  [id |-> row.id,
   title |-> IF "title" \in changed THEN Val(update_data.title) ELSE row.title,
   description |-> IF "description" \in changed THEN update_data.description
                   ELSE row.description,
   instructions |-> IF "instructions" \in changed THEN update_data.instructions
                    ELSE row.instructions,
   created_at |-> row.created_at,
   updated_at |-> Some(now)]

\* PUT /notebooks/{notebook_id}, setattr loop, commit and refresh: lines 123-129.
\* The refresh after a commit that wrote the row only shapes the response.
update_notebook_commit(u) ==
  /\ upds[u].pc = "commit"
  /\ LET n == upds[u].notebook_id
         update_data == ModelDumpExcludeUnset(Val(upds[u].data))
         changed == UpdateChanged(Val(upds[u].notebook), update_data)
     IN  IF changed = {}
         THEN \* nothing to flush; db.refresh fails if the row is gone
              /\ upds' = [upds EXCEPT ![u].pc =
                            IF NotebookExists(n) THEN "http_200" ELSE "error_refresh"]
              /\ UNCHANGED << notebooks, clock >>
         ELSE IF ~NotebookExists(n)
         THEN \* UPDATE matched no row: StaleDataError
              /\ upds' = [upds EXCEPT ![u].pc = "error_stale"]
              /\ UNCHANGED << notebooks, clock >>
         ELSE IF "title" \in changed /\ IsNone(update_data.title)
         THEN \* notebooks.title is NOT NULL: IntegrityError, rolled back
              /\ upds' = [upds EXCEPT ![u].pc = "error_not_null"]
              /\ UNCHANGED << notebooks, clock >>
         ELSE /\ notebooks' = (notebooks \ NotebookById(n)) \cup
                    { UpdatedRow(TheNotebook(n), update_data, changed, clock + 1) }
              /\ clock' = clock + 1
              /\ upds' = [upds EXCEPT ![u].pc = "http_200"]
  /\ UNCHANGED << notebook_seq, links, link_seq, agent_os, uuid_count, runs, resp >>

\* ------------------------------------------------------------ notebook_run
\* set_agent_os(os_instance); app/main.py calls it once, at import.
set_agent_os(os_instance) ==
  /\ agent_os = None
  /\ agent_os' = Some(os_instance)
  /\ UNCHANGED << notebooks, notebook_seq, links, link_seq, clock, uuid_count,
                  runs, upds, resp >>

\* get_team_by_id(team_id=..., teams=_agent_os.teams, ...): the team or None
get_team_by_id(team_id, teams) == IF team_id \in teams THEN Some(team_id) ELSE None

\* str(uuid4()): the k-th call returns the k-th of a supply of distinct tokens
UuidTokens ==
  << "uuid-1", "uuid-2", "uuid-3", "uuid-4", "uuid-5", "uuid-6", "uuid-7", "uuid-8" >>
uuid4(k) == UuidTokens[k]

\* Faulty variant: only an absent session id counts as a new session.
IsNewSession_NoneOnly(session_in) == IsNone(session_in)

\* is_new_session = not session_id or session_id == ""
IsNewSession(session_in) == IsNone(session_in) \/ Val(session_in) = ""

\* Faulty variant: the title and the optional lines are followed by one newline only.
FullMessage_NoBlankLine(notebook, message) ==
  (Join(
     << NotebookOpen \o notebook.title \o Close >>
     \o (IF Truthy(notebook.description)
         THEN << DescriptionOpen \o Val(notebook.description) \o Close >> ELSE << >>)
     \o (IF Truthy(notebook.instructions)
         THEN << InstructionsOpen \o Val(notebook.instructions) \o Close >> ELSE << >>),
     NL) \o NL) \o message

\* Lines 166-172: the context prefix and the full message
ContextParts(notebook) ==
  << NotebookOpen \o notebook.title \o Close >>
  \o (IF Truthy(notebook.description)
      THEN << DescriptionOpen \o Val(notebook.description) \o Close >> ELSE << >>)
  \o (IF Truthy(notebook.instructions)
      THEN << InstructionsOpen \o Val(notebook.instructions) \o Close >> ELSE << >>)
FullMessage(notebook, message) ==
  (Join(ContextParts(notebook), NL) \o NL \o NL) \o message

\* Request arrival and line 157: the _agent_os check
run_start(r, n, session_in) ==
  /\ runs[r].pc = "idle"
  /\ runs' = [runs EXCEPT ![r] =
       [@ EXCEPT !.pc = IF IsNone(agent_os) THEN "http_500" ELSE "fetch",
                 !.notebook_id = n,
                 !.session_in = session_in]]
  /\ UNCHANGED << notebooks, notebook_seq, links, link_seq, clock, agent_os,
                  uuid_count, upds, resp >>

\* Lines 160-172: fetch the notebook, build the message
run_fetch(r, message) ==
  /\ runs[r].pc = "fetch"
  /\ runs' = [runs EXCEPT ![r] =
       IF NotebookExists(runs[r].notebook_id)
       THEN [@ EXCEPT !.pc = "team",
                      !.message = message,
                      !.notebook = Some(TheNotebook(runs[r].notebook_id)),
                      !.full_message =
                         FullMessage(TheNotebook(runs[r].notebook_id), message)]
       ELSE [@ EXCEPT !.pc = "http_404_notebook", !.message = message]]
  /\ UNCHANGED << notebooks, notebook_seq, links, link_seq, clock, agent_os,
                  uuid_count, upds, resp >>

\* Faulty variant: the session is resolved and linked before the team is looked up.
run_team_LinkFirst(r) ==
  /\ runs[r].pc = "team"
  /\ LET new == IsNone(runs[r].session_in) \/ Val(runs[r].session_in) = ""
         sid == IF new THEN UuidTokens[uuid_count + 1] ELSE Val(runs[r].session_in)
         link == [id |-> link_seq + 1, notebook_id |-> runs[r].notebook_id,
                  session_id |-> sid]
         found == { l \in links : l.session_id = sid }
     IN  /\ uuid_count' = IF new THEN uuid_count + 1 ELSE uuid_count
         /\ IF found = {} /\ NotebookExists(runs[r].notebook_id)
            THEN links' = links \cup {link} /\ link_seq' = link_seq + 1
            ELSE UNCHANGED << links, link_seq >>
         /\ runs' = [runs EXCEPT ![r] =
              IF "notebooklm" \in Val(agent_os).teams
              THEN [@ EXCEPT !.pc = "dispatch", !.is_new_session = new,
                             !.session_id = sid,
                             !.link = IF found = {} THEN Some(link) ELSE None,
                             !.existing_link =
                                IF found = {} THEN None
                                ELSE Some(CHOOSE l \in found : TRUE)]
              ELSE [@ EXCEPT !.pc = "http_404_team"]]
  /\ UNCHANGED << notebooks, notebook_seq, clock, agent_os, upds, resp >>

\* Lines 174-187: look the team up, resolve the session id
run_team(r) ==
  /\ runs[r].pc = "team"
  /\ IF IsNone(get_team_by_id("notebooklm", Val(agent_os).teams))
     THEN /\ runs' = [runs EXCEPT ![r].pc = "http_404_team"]
          /\ UNCHANGED uuid_count
     ELSE IF IsNewSession(runs[r].session_in)
     THEN /\ runs' = [runs EXCEPT ![r] =
                [@ EXCEPT !.pc = "link_check",
                          !.is_new_session = TRUE,
                          !.session_id = uuid4(uuid_count + 1)]]
          /\ uuid_count' = uuid_count + 1
     ELSE /\ runs' = [runs EXCEPT ![r] =
                [@ EXCEPT !.pc = "link_check",
                          !.session_id = Val(runs[r].session_in)]]
          /\ UNCHANGED uuid_count
  /\ UNCHANGED << notebooks, notebook_seq, links, link_seq, clock, agent_os,
                  upds, resp >>

\* Faulty variant: the handler goes on to dispatch without inserting a missing link.
run_link_check_NoInsert(r) ==
  /\ runs[r].pc = "link_check"
  /\ LET found == LinkBySession(runs[r].session_id)
     IN  runs' = [runs EXCEPT ![r] =
           IF found # {}
           THEN [@ EXCEPT !.pc = "dispatch",
                          !.existing_link = Some(CHOOSE l \in found : TRUE)]
           ELSE [@ EXCEPT !.pc = "dispatch"]]
  /\ UNCHANGED << notebooks, notebook_seq, links, link_seq, clock, agent_os,
                  uuid_count, upds, resp >>

\* Lines 189-195: the existence check
run_link_check(r) ==
  /\ runs[r].pc = "link_check"
  /\ LET found == LinkBySession(runs[r].session_id)
     IN  runs' = [runs EXCEPT ![r] =
           IF found # {}
           THEN [@ EXCEPT !.pc = "dispatch",
                          !.existing_link = Some(CHOOSE l \in found : TRUE)]
           ELSE [@ EXCEPT !.pc = "link_insert"]]
  /\ UNCHANGED << notebooks, notebook_seq, links, link_seq, clock, agent_os,
                  uuid_count, upds, resp >>

\* Faulty variant: the session_id column without its unique constraint.
UniqueViolation_Unconstrained(session_id) == FALSE

\* unique=True on notebook_sessions.session_id
UniqueViolation(session_id) == LinkBySession(session_id) # {}

\* Faulty variant: the notebook_id column without its foreign key.
ForeignKeyViolation_Unconstrained(n) == FALSE

\* ForeignKey("notebooks.id") on notebook_sessions.notebook_id
ForeignKeyViolation(n) == ~NotebookExists(n)

\* Faulty variant: a duplicate-key error is swallowed and the request goes on.
run_link_insert_Swallow(r) ==
  /\ runs[r].pc = "link_insert"
  /\ link_seq' = link_seq + 1
  /\ LET link == [id |-> link_seq + 1,
                  notebook_id |-> runs[r].notebook_id,
                  session_id |-> runs[r].session_id]
     IN  IF UniqueViolation(link.session_id)
         THEN /\ runs' = [runs EXCEPT ![r].pc = "dispatch"]
              /\ UNCHANGED links
         ELSE IF ForeignKeyViolation(link.notebook_id)
         THEN /\ runs' = [runs EXCEPT ![r].pc = "error_foreign_key"]
              /\ UNCHANGED links
         ELSE /\ links' = links \cup {link}
              /\ runs' = [runs EXCEPT ![r] =
                    [@ EXCEPT !.pc = "dispatch", !.link = Some(link)]]
  /\ UNCHANGED << notebooks, notebook_seq, clock, agent_os, uuid_count, upds, resp >>

\* Lines 196-201: INSERT INTO notebook_sessions and commit.  The id sequence
\* advances whether or not the insert succeeds.
run_link_insert(r) ==
  /\ runs[r].pc = "link_insert"
  /\ link_seq' = link_seq + 1
  /\ LET link == [id |-> link_seq + 1,
                  notebook_id |-> runs[r].notebook_id,
                  session_id |-> runs[r].session_id]
     IN  IF UniqueViolation(link.session_id)
         THEN /\ runs' = [runs EXCEPT ![r].pc = "error_unique"]
              /\ UNCHANGED links
         ELSE IF ForeignKeyViolation(link.notebook_id)
         THEN /\ runs' = [runs EXCEPT ![r].pc = "error_foreign_key"]
              /\ UNCHANGED links
         ELSE /\ links' = links \cup {link}
              /\ runs' = [runs EXCEPT ![r] =
                    [@ EXCEPT !.pc = "dispatch", !.link = Some(link)]]
  /\ UNCHANGED << notebooks, notebook_seq, clock, agent_os, uuid_count, upds, resp >>

\* Lines 203-220: hand the message and the session id to the team
run_dispatch(r, stream) ==
  /\ runs[r].pc = "dispatch"
  /\ runs' = [runs EXCEPT ![r] =
       [@ EXCEPT !.pc = IF stream THEN "streamed" ELSE "buffered",
                 !.dispatched = Some([input |-> runs[r].full_message,
                                      session_id |-> runs[r].session_id])]]
  /\ UNCHANGED << notebooks, notebook_seq, links, link_seq, clock, agent_os,
                  uuid_count, upds, resp >>

\* --------------------------------------------------------- specifications
A == << "A" >>
B == << "B" >>
D == << "d" >>
I == << "i" >>
M == << "m" >>

OsInstances == { [teams |-> {}], [teams |-> {"notebooklm"}] }

\* The session ids a client can send: none, the empty string, an id of its
\* own choosing, or an id an earlier run generated.
SessionInputs ==
  { None, Some(""), Some("s1") } \cup { Some(uuid4(k)) : k \in 1 .. uuid_count }

CreateBodies == { [title |-> A, instructions |-> Some(I)] }
Next ==
  \/ \E os \in OsInstances : set_agent_os(os)
  \/ \E body \in CreateBodies : create_notebook(body)
  \/ \E n \in NotebookIds : get_notebook(n)
  \/ \E n \in NotebookIds : delete_notebook(n)
  \/ \E r \in Runs, n \in NotebookIds, s \in SessionInputs : run_start(r, n, s)
  \/ \E r \in Runs : run_fetch(r, M)
  \/ \E r \in Runs : run_team(r)
  \/ \E r \in Runs : run_link_check(r)
  \/ \E r \in Runs : run_link_insert(r)
  \/ \E r \in Runs, stream \in BOOLEAN : run_dispatch(r, stream)

Spec == Init /\ [][Next]_vars

\* The handlers of the whole router around one run and one update request:
\* the failure paths of every handler.
ErrRuns == { 1 }
ErrUpdates == { 1 }
ErrUpdateBodies == { [title |-> Some(B)] }

NextErr ==
  \/ \E os \in OsInstances : set_agent_os(os)
  \/ \E body \in CreateBodies : create_notebook(body)
  \/ \E n \in NotebookIds : get_notebook(n)
  \/ \E n \in NotebookIds : delete_notebook(n)
  \/ \E n \in NotebookIds : list_notebook_sessions(n)
  \/ \E u \in ErrUpdates, n \in NotebookIds, body \in ErrUpdateBodies :
        update_notebook_load(u, n, body)
  \/ \E u \in ErrUpdates : update_notebook_commit(u)
  \/ \E r \in ErrRuns, n \in NotebookIds, s \in SessionInputs : run_start(r, n, s)
  \/ \E r \in ErrRuns : run_fetch(r, M)
  \/ \E r \in ErrRuns : run_team(r)
  \/ \E r \in ErrRuns : run_link_check(r)
  \/ \E r \in ErrRuns : run_link_insert(r)
  \/ \E r \in ErrRuns, stream \in BOOLEAN : run_dispatch(r, stream)

SpecErr == Init /\ [][NextErr]_vars

\* The notebook CRUD handlers alone, with concurrent updates.
EmptyBody == << >>
CrudCreateBodies ==
  { EmptyBody, [title |-> A, description |-> Some(D), instructions |-> Some(I)] }
CrudUpdateBodies ==
  { EmptyBody,
    [title |-> Some(B)],
    [title |-> None],
    [description |-> None],
    [title |-> Some(A), description |-> Some(D)],
    [instructions |-> Some(<< >>)] }

NextCrud ==
  \/ \E body \in CrudCreateBodies : create_notebook(body)
  \/ \E n \in NotebookIds : get_notebook(n)
  \/ \E n \in NotebookIds : delete_notebook(n)
  \/ \E u \in Updates, n \in NotebookIds, body \in CrudUpdateBodies :
        update_notebook_load(u, n, body)
  \/ \E u \in Updates : update_notebook_commit(u)

SpecCrud == Init /\ [][NextCrud]_vars

\* One run request against one stored notebook, over varied texts.
MsgTitles == { A, UntitledNotebook }
MsgOptionals == { None, Some(<< >>), Some(D), Some(<< "x", "\n", "y" >>) }
MsgMessages == { << >>, M, << "\n", "m" >>, << "[", "m", "]", "\n" >> }
MsgRuns == { 1 }

InitMsg ==
  /\ \E t \in MsgTitles, d \in MsgOptionals, i \in MsgOptionals :
       notebooks = { [id |-> 1, title |-> t, description |-> d, instructions |-> i,
                      created_at |-> 1, updated_at |-> None] }
  /\ notebook_seq = 1
  /\ links = {}
  /\ link_seq = 0
  /\ clock = 1
  /\ agent_os = Some([teams |-> {"notebooklm"}])
  /\ uuid_count = 0
  /\ runs = [r \in Runs |-> IdleRun]
  /\ upds = [u \in Updates |-> IdleUpd]
  /\ resp = NoResp

NextMsg ==
  \/ \E r \in MsgRuns, s \in SessionInputs : run_start(r, 1, s)
  \/ \E r \in MsgRuns, message \in MsgMessages : run_fetch(r, message)
  \/ \E r \in MsgRuns : run_team(r)
  \/ \E r \in MsgRuns : run_link_check(r)
  \/ \E r \in MsgRuns : run_link_insert(r)
  \/ \E r \in MsgRuns, stream \in BOOLEAN : run_dispatch(r, stream)

SpecMsg == InitMsg /\ [][NextMsg]_vars

\* ================================================================ claims
Sent == { "streamed", "buffered" }
Resolved ==
  { "link_check", "link_insert", "dispatch", "streamed", "buffered",
    "error_unique", "error_foreign_key" }
\* Ids that were assigned to a notebook that has since been deleted.
Deleted(n) == n <= notebook_seq /\ ~NotebookExists(n)

\* C1: the store never holds two link rows with the same session_id, and
\* while a link row for a session id exists no step adds or replaces a row
\* for that session id.
C1_OneLinkPerSession ==
  /\ [](\A l1 \in links, l2 \in links : l1.session_id = l2.session_id => l1 = l2)
  /\ [][\A l \in links :
          { k \in links' : k.session_id = l.session_id } \subseteq {l}]_vars

\* C1 witness: a run carrying an already linked session id, sent against a
\* different notebook, has dispatched and the session still has one row.
C1_Witness ==
  \E r \in Runs :
    /\ runs[r].pc \in Sent
    /\ ~IsNone(runs[r].existing_link)
    /\ Val(runs[r].existing_link).notebook_id # runs[r].notebook_id
    /\ Cardinality(LinkBySession(runs[r].session_id)) = 1

\* C2 (as claimed): at every dispatch with session id S, the link row of S
\* references the notebook the run is for, and no link row is ever changed.
C2_ThreadBelongsToOneNotebook ==
  /\ [][\A r \in Runs :
          (runs[r].pc = "dispatch" /\ runs'[r].pc \in Sent) =>
            \A l \in links' :
              l.session_id = runs[r].session_id => l.notebook_id = runs[r].notebook_id]_vars
  /\ [][\A l \in links, k \in links' : k.id = l.id => k = l]_vars

\* C3 (as claimed): at every dispatch with session id S a link row for S is
\* in the store.
C3_LinkExistsAtDispatch ==
  [][\A r \in Runs :
       (runs[r].pc = "dispatch" /\ runs'[r].pc \in Sent) =>
         LinkBySession(runs[r].session_id)' # {}]_vars

\* The link row a run found or inserted.
RunLinkRows(r) ==
  { Val(o) : o \in { x \in { runs[r].existing_link, runs[r].link } : ~IsNone(x) } }

\* C3 (amended): a run that is about to dispatch or has dispatched found or
\* committed a link row for its session id, and that row is still in the
\* store unless the notebook it references has been deleted since.
C3_LinkFoundOrCommittedBeforeDispatch ==
  \A r \in Runs :
    runs[r].pc \in ({"dispatch"} \cup Sent) =>
      /\ RunLinkRows(r) # {}
      /\ \A l \in RunLinkRows(r) :
           /\ l.session_id = runs[r].session_id
           /\ NotebookExists(l.notebook_id) => l \in links

\* C3 witness: a run has dispatched after the row it committed was removed
\* by the delete of its notebook.
C3_Witness ==
  \E r \in Runs :
    /\ runs[r].pc \in Sent
    /\ ~IsNone(runs[r].link)
    /\ LinkBySession(runs[r].session_id) = {}

\* C5: the step that deletes notebook N removes exactly the link rows of N;
\* afterwards no link row of N ever exists and a GET of N answers 404.
C5_DeleteCascades ==
  /\ [][\A n \in NotebookIds :
          (NotebookExists(n) /\ ~NotebookExists(n)') =>
            links' = { l \in links : l.notebook_id # n }]_vars
  /\ [](\A n \in NotebookIds :
          Deleted(n) =>
            /\ \A l \in links : l.notebook_id # n
            /\ (resp.op = "get" /\ resp.notebook_id = n) => resp.status = 404)
  /\ [][\A n \in NotebookIds : Deleted(n) => Deleted(n)']_vars

\* C5 witness: notebook N had a link row, was deleted, a GET of N answered
\* 404, and the link row of another notebook is still there.
C5_Witness ==
  /\ resp.op = "get"
  /\ resp.status = 404
  /\ Deleted(resp.notebook_id)
  /\ \E r \in Runs :
       /\ ~IsNone(runs[r].link)
       /\ Val(runs[r].link).notebook_id = resp.notebook_id
  /\ \E l \in links : l.notebook_id # resp.notebook_id

\* C8: the session id of a run is never empty; it is the supplied value when
\* one was supplied and non-empty, and otherwise a generated token that no
\* other run generated.
C8_SessionIdResolved ==
  \A r \in Runs :
    runs[r].pc \in Resolved =>
      /\ runs[r].session_id # ""
      /\ (~IsNone(runs[r].session_in) /\ Val(runs[r].session_in) # "")
            => runs[r].session_id = Val(runs[r].session_in)
      /\ (IsNone(runs[r].session_in) \/ Val(runs[r].session_in) = "")
            => /\ runs[r].is_new_session
               /\ \A q \in Runs \ {r} :
                    (runs[q].pc \in Resolved /\ runs[q].is_new_session)
                      => runs[q].session_id # runs[r].session_id
      /\ \A l \in RunLinkRows(r) : l.session_id = runs[r].session_id
      /\ ~IsNone(runs[r].dispatched)
            => Val(runs[r].dispatched).session_id = runs[r].session_id

\* C8 witness: one run sent without a session id and one sent with the empty
\* string have both dispatched.
C8_Witness ==
  \E r \in Runs, q \in Runs :
    /\ runs[r].pc \in Sent /\ IsNone(runs[r].session_in)
    /\ runs[q].pc \in Sent /\ runs[q].session_in = Some("")

\* The runs that passed the existence check of session id s without finding
\* a row and have since attempted their insert.
Attempted(s) ==
  { r \in Runs :
      /\ runs[r].pc \in { "dispatch", "streamed", "buffered",
                          "error_unique", "error_foreign_key" }
      /\ runs[r].session_id = s
      /\ IsNone(runs[r].existing_link) }

\* C9: of two runs that both passed the existence check for the same unlinked
\* session id and both attempted the insert (their notebooks still exist and
\* no third run inserted a row for it), exactly one committed its row, the
\* other ended with the uniqueness error and dispatched nothing, and one link
\* row for the session id exists; a run that ended so never moves again.
C9_RaceLeavesOneLink ==
  /\ [](\A r \in Runs, q \in Runs :
          ( /\ r # q
            /\ r \in Attempted(runs[r].session_id)
            /\ q \in Attempted(runs[r].session_id)
            /\ NotebookExists(runs[r].notebook_id)
            /\ NotebookExists(runs[q].notebook_id)
            /\ \A o \in Runs \ {r, q} :
                 ~(runs[o].session_id = runs[r].session_id /\ ~IsNone(runs[o].link)) )
          => /\ IsNone(runs[r].link) # IsNone(runs[q].link)
             /\ IsNone(runs[r].link) =>
                  (runs[r].pc = "error_unique" /\ IsNone(runs[r].dispatched))
             /\ Cardinality(LinkBySession(runs[r].session_id)) = 1)
  /\ [][\A r \in Runs : runs[r].pc = "error_unique" => runs'[r] = runs[r]]_vars

\* C9 witness: two runs with the same session id, one ended with the
\* uniqueness error, the other committed the row and dispatched.
C9_Witness ==
  \E r \in Runs, q \in Runs :
    /\ runs[r].pc = "error_unique"
    /\ runs[q].pc \in Sent
    /\ runs[q].session_id = runs[r].session_id
    /\ ~IsNone(runs[q].link)
    /\ Val(runs[q].link) \in links

\* C10: every link row references a notebook that exists.
C10_LinksReferenceNotebooks ==
  \A l \in links : NotebookExists(l.notebook_id)

\* C10 witness: a run's insert was rejected by the foreign key after its
\* notebook was deleted.
C10_Witness ==
  \E r \in Runs :
    /\ runs[r].pc = "error_foreign_key"
    /\ ~IsNone(runs[r].notebook)
    /\ Deleted(runs[r].notebook_id)

RunFailed == { "http_500", "http_404_notebook", "http_404_team" }

\* C4: a run that ends 500 (no _agent_os), 404 (no notebook) or 404 (no team)
\* does so without changing either table and without dispatching, and stays
\* ended; get, delete, session-list and update requests for a notebook id
\* that does not exist answer 404 and change neither table.
C4_FailuresChangeNothing ==
  /\ [][\A r \in Runs :
          /\ (runs[r].pc = "idle" /\ runs'[r].pc # "idle" /\ IsNone(agent_os))
                => runs'[r].pc = "http_500"
          /\ (runs[r].pc = "fetch" /\ runs'[r].pc # "fetch"
                /\ ~NotebookExists(runs[r].notebook_id))
                => runs'[r].pc = "http_404_notebook"
          /\ (runs[r].pc = "team" /\ runs'[r].pc # "team"
                /\ "notebooklm" \notin Val(agent_os).teams)
                => runs'[r].pc = "http_404_team"
          /\ (runs[r].pc \notin RunFailed /\ runs'[r].pc \in RunFailed)
                => (notebooks' = notebooks /\ links' = links)
          /\ runs[r].pc \in RunFailed => runs'[r] = runs[r]]_vars
  /\ [](\A r \in Runs :
          runs[r].pc \in RunFailed =>
            (IsNone(runs[r].dispatched) /\ IsNone(runs[r].link)))
  /\ [][(resp' # resp /\ resp'.op \in {"get", "delete", "sessions"}
           /\ ~NotebookExists(resp'.notebook_id))
          => (resp'.status = 404 /\ notebooks' = notebooks /\ links' = links)]_vars
  /\ [][\A u \in Updates :
          /\ (upds[u].pc = "idle" /\ upds'[u].pc # "idle"
                /\ ~NotebookExists(upds'[u].notebook_id))
                => (upds'[u].pc = "http_404" /\ notebooks' = notebooks
                      /\ links' = links)
          /\ upds[u].pc = "http_404" => upds'[u] = upds[u]]_vars

\* C4 witness: with a notebook stored, a run has ended 404 for want of the
\* team, an update has ended 404 and the last single-step handler answered
\* 404.
C4_Witness ==
  /\ \E r \in Runs : runs[r].pc = "http_404_team"
  /\ \E u \in Updates : upds[u].pc = "http_404"
  /\ resp.status = 404
  /\ notebooks # {}

\* The commit step of update request u, on a notebook that exists.
PutCommits(u) ==
  /\ upds[u].pc = "commit"
  /\ upds'[u].pc # "commit"
  /\ NotebookExists(upds[u].notebook_id)

\* C6 (as claimed): a PUT sets every field present in its body to the body's
\* value, null included, and leaves the other fields, id and created_at alone.
C6_PutSetsPresentFields ==
  [][\A u \in Updates :
       PutCommits(u) =>
         LET old == TheNotebook(upds[u].notebook_id)
             new == TheNotebook(upds[u].notebook_id)'
             body == Val(upds[u].data)
         IN  /\ new.id = old.id
             /\ new.created_at = old.created_at
             /\ \A f \in NotebookFields :
                  RowField(new, f) = IF f \in body.fields_set THEN body.fields[f]
                                     ELSE RowField(old, f)]_vars

\* C6 (amended): a PUT never changes id, created_at or a field absent from
\* its body; a body with a null title is rejected and changes nothing;
\* otherwise each present field whose value differs from the value the
\* handler loaded is set to the body's value, and a present field equal to
\* the loaded value is left as the row holds it.
C6_PutAppliesChangedPresentFields ==
  /\ [][\A u \in Updates :
          PutCommits(u) =>
            LET old == TheNotebook(upds[u].notebook_id)
                new == TheNotebook(upds[u].notebook_id)'
                loaded == Val(upds[u].notebook)
                body == Val(upds[u].data)
            IN  /\ new.id = old.id
                /\ new.created_at = old.created_at
                /\ \A f \in NotebookFields \ body.fields_set :
                     RowField(new, f) = RowField(old, f)
                /\ IF "title" \in body.fields_set /\ IsNone(body.fields["title"])
                   THEN new = old /\ upds'[u].pc = "error_not_null"
                   ELSE \A f \in body.fields_set :
                          RowField(new, f) =
                            IF body.fields[f] # RowField(loaded, f)
                            THEN body.fields[f] ELSE RowField(old, f)]_vars
  /\ [][\A old \in notebooks, new \in notebooks' :
          new.id = old.id => new.created_at = old.created_at]_vars

\* C6 witness: a PUT with only a title has completed; the title is the new
\* one and the description and instructions given at creation are kept.
C6_Witness ==
  \E u \in Updates :
    /\ upds[u].pc = "http_200"
    /\ Val(upds[u].data).fields_set = {"title"}
    /\ \E nb \in NotebookById(upds[u].notebook_id) :
         /\ nb.title = B
         /\ Val(upds[u].notebook).title = A
         /\ nb.description = Some(D)
         /\ nb.instructions = Some(I)

\* One line of the context prefix.
C7_Line(open, text) == open \o text \o << "]", "\n" >>
C7_Populated(o) == o \notin { None, Some(<< >>) }

\* C7: the message a run dispatches is the title line, the description line
\* if the description is populated, the instructions line if the
\* instructions are populated, an empty line, and the user's message.
C7_DispatchedMessage ==
  \A r \in Runs :
    ~IsNone(runs[r].dispatched) =>
      LET nb == Val(runs[r].notebook)
      IN  Val(runs[r].dispatched).input =
            C7_Line(NotebookOpen, nb.title)
            \o (IF C7_Populated(nb.description)
                THEN C7_Line(DescriptionOpen, Val(nb.description)) ELSE << >>)
            \o (IF C7_Populated(nb.instructions)
                THEN C7_Line(InstructionsOpen, Val(nb.instructions)) ELSE << >>)
            \o << "\n" >>
            \o runs[r].message

\* C7 witness: a run has dispatched for a notebook with a description and
\* empty instructions, with a non-empty message.
C7_Witness ==
  \E r \in Runs :
    /\ ~IsNone(runs[r].dispatched)
    /\ Val(runs[r].notebook).description = Some(D)
    /\ Val(runs[r].notebook).instructions = Some(<< >>)
    /\ Len(runs[r].message) > 1

====
